---- MODULE Spec2Model ----
(***************************************************************************)
(* Model of the Issuu acquisition worker (scripts/scraper_worker.py) and   *)
(* of the scraper it drives (scripts/issuu_scraper.py).                    *)
(*                                                                         *)
(* One worker process runs main() over the configured handles; runs follow *)
(* each other and share only the ledger file.  Inside scrape_publication   *)
(* the page downloads of the first pass run on a thread pool; everything   *)
(* else is sequential.                                                     *)
(*                                                                         *)
(* Characters are one-character strings; a few characters that cannot be   *)
(* written inside a string are named ("e_acute", "COMBINING_ACUTE", "TAB", *)
(* "NUL", "DQUOTE", "BACKSLASH", "BACKTICK").                              *)
(* Dates are day numbers yyyymmdd, which order as the timestamps do.       *)
(***************************************************************************)
EXTENDS Integers, Sequences, FiniteSets, TLC

(***************************************************************************)
(* Bounds                                                                  *)
(***************************************************************************)
MaxPages == 2
MaxRuns == 2
\* records a ledger file holds when the ledger operations are exercised alone
MaxRecs == 2
\* get_publications alone: the largest number of publications asked for, the
\* cards on one listing page, and the page number from which on listing pages
\* are not told apart
MaxRequested == 2
MaxCards == 2
MaxListedPage == 3

(***************************************************************************)
(* Program constants                                                       *)
(***************************************************************************)
CUTOFF_DATE == 20250131
MAX_FILENAME_LEN == 255
\* the width of page_{page_num:03d}.jpg
PAGE_NUM_WIDTH == 3
\* main: scraper.get_publications(handle, 10)
NUM_PUBLICATIONS == 10

None == "None"

\* a missing publish date, no document data, no artifact, no email
NoDate == 0
NoDocument ==
    [publication_id |-> None, page_count |-> 0, title |-> <<>>,
     revision_id |-> None, originalPublishDateInISOString |-> NoDate]
NoFile == [path |-> <<>>, pages |-> <<>>]
NoEmail == <<>>

(***************************************************************************)
(* Small sequence helpers                                                  *)
(***************************************************************************)
\* ''.join(ss), by halves so that long strings stay shallow
RECURSIVE Concat(_)
Concat(ss) ==
    IF ss = <<>> THEN <<>>
    ELSE IF Len(ss) = 1 THEN ss[1]
    ELSE LET half == Len(ss) \div 2
         IN  Concat(SubSeq(ss, 1, half))
                 \o Concat(SubSeq(ss, half + 1, Len(ss)))

Range(s) == {s[n] : n \in DOMAIN s}

Min(a, b) == IF a < b THEN a ELSE b
Max(a, b) == IF a > b THEN a ELSE b

\* Python's s[:n], negative n included
SliceTo(s, n) ==
    IF n >= 0 THEN SubSeq(s, 1, Min(n, Len(s)))
    ELSE SubSeq(s, 1, Max(0, Len(s) + n))

(***************************************************************************)
(* sanitize_filename                                                       *)
(***************************************************************************)
\* unicodedata.normalize('NFKD', c) for one character
NFKD(c) == IF c = "e_acute" THEN <<"e", "COMBINING_ACUTE">> ELSE <<c>>

combining(c) == c = "COMBINING_ACUTE"

char_map ==
    [c \in {"<", ">", ":", "DQUOTE", "/", "BACKSLASH", "|", "?", "*", "&",
            "#", "%", "{", "}", "~", "+", "@", "!", "BACKTICK", "=", ";",
            "[", "]"} |->
        CASE c = "<" -> <<"(">>
          [] c = ">" -> <<")">>
          [] c = ":" -> <<"-">>
          [] c = "DQUOTE" -> <<"'">>
          [] c = "/" -> <<"-">>
          [] c = "BACKSLASH" -> <<"-">>
          [] c = "|" -> <<"-">>
          [] c = "?" -> <<>>
          [] c = "*" -> <<>>
          [] c = "&" -> <<"a", "n", "d">>
          [] c = "#" -> <<"N", "o", ".">>
          [] c = "%" -> <<"p", "c", "t">>
          [] c = "{" -> <<"(">>
          [] c = "}" -> <<")">>
          [] c = "~" -> <<"-">>
          [] c = "+" -> <<"p", "l", "u", "s">>
          [] c = "@" -> <<"a", "t">>
          [] c = "!" -> <<>>
          [] c = "BACKTICK" -> <<"'">>
          [] c = "=" -> <<"-">>
          [] c = ";" -> <<",">>
          [] c = "[" -> <<"(">>
          [] c = "]" -> <<")">>]

\* the replace loop: no replacement contains a key, so the sequential
\* str.replace calls amount to one substitution per character
ReplaceChar(c) == IF c \in DOMAIN char_map THEN char_map[c] ELSE <<c>>

isprintable(c) == c \notin {"TAB", "NUL"}

\* re.sub(c+, c): runs of c become one c
CollapseRuns(s, c) ==
    Concat([n \in DOMAIN s |->
               IF s[n] = c /\ n < Len(s) /\ s[n + 1] = c THEN <<>>
               ELSE <<s[n]>>])

LStrip(s, cs) ==
    LET kept == {n \in DOMAIN s : s[n] \notin cs}
    IN  IF kept = {} THEN <<>>
        ELSE SubSeq(s, CHOOSE n \in kept : \A m \in kept : n <= m, Len(s))

RStrip(s, cs) ==
    LET kept == {n \in DOMAIN s : s[n] \notin cs}
    IN  IF kept = {} THEN <<>>
        ELSE SubSeq(s, 1, CHOOSE n \in kept : \A m \in kept : m <= n)

strip(s, cs) == RStrip(LStrip(s, cs), cs)

\* os.path.splitext: the extension starts at the last dot, unless only dots
\* precede it
splitext(s) ==
    LET dots == {n \in DOMAIN s : s[n] = "."}
        dotIndex == IF dots = {} THEN 0
                    ELSE CHOOSE n \in dots : \A m \in dots : m <= n
    IN  IF dotIndex > 0 /\ \E n \in 1..(dotIndex - 1) : s[n] # "."
        THEN <<SubSeq(s, 1, dotIndex - 1), SubSeq(s, dotIndex, Len(s))>>
        ELSE <<s, <<>>>>

Truncate(s) ==
    IF Len(s) > MAX_FILENAME_LEN
    THEN LET parts == splitext(s)
         IN  SliceTo(parts[1], MAX_FILENAME_LEN - Len(parts[2])) \o parts[2]
    ELSE s

unnamed_document ==
    <<"u", "n", "n", "a", "m", "e", "d", "_",
      "d", "o", "c", "u", "m", "e", "n", "t">>

sanitize_filename(filename) ==
    LET step1 == SelectSeq(
                     Concat([n \in DOMAIN filename |-> NFKD(filename[n])]),
                     LAMBDA c : ~combining(c))
        step2 == Concat([n \in DOMAIN step1 |-> ReplaceChar(step1[n])])
        step3 == SelectSeq(step2, isprintable)
        step4 == CollapseRuns(CollapseRuns(step3, " "), "-")
        step5 == strip(step4, {" ", "-"})
        step6 == Truncate(step5)
    IN  IF step6 = <<>> THEN unnamed_document ELSE step6

(***************************************************************************)
(* The ledger file (PROCESSED_PUBS_FILE)                                   *)
(*   state "absent":  no file                                              *)
(*   state "ok":      parseable JSON holding recs                          *)
(*   state "corrupt": a file json.load rejects (empty or partly written)   *)
(***************************************************************************)
AbsentFile == [state |-> "absent", recs |-> <<>>]
CorruptFile == [state |-> "corrupt", recs |-> <<>>]
OkFile(recs) == [state |-> "ok", recs |-> recs]

\* the list load_processed_publications returns
LoadedData(f) == IF f.state = "ok" THEN f.recs ELSE <<>>

\* variant: load_processed_publications returns the default data without
\* writing the file
LoadedFile_untouched(f) == f

\* the file load_processed_publications leaves behind
LoadedFile(f) == IF f.state = "ok" THEN f ELSE OkFile(<<>>)

\* variant: no publication ever counts as processed
is_publication_processed_never(f, pub_id) == FALSE

\* variant: the comparison of the ids is inverted
is_publication_processed_other(f, pub_id) ==
    \E n \in DOMAIN LoadedData(f) : LoadedData(f)[n].publication_id # pub_id

is_publication_processed(f, pub_id) ==
    \E n \in DOMAIN LoadedData(f) : LoadedData(f)[n].publication_id = pub_id

\* publication ids the persisted ledger holds
LedgerIds(f) == {LoadedData(f)[n].publication_id : n \in DOMAIN LoadedData(f)}

(***************************************************************************)
(* Configuration and upstream                                              *)
(***************************************************************************)
issuu_handles == <<"h1", "h2">>

\* the references get_publications yields for a handle
publications_of(handle) ==
    IF handle = "h1" THEN <<"r1", "r2">> ELSE <<"r3">>

References == {"r1", "r2", "r3"}

\* the publicationId the document page of a reference carries
PublicationIdOf(ref) ==
    CASE ref = "r1" -> "p1" [] ref = "r2" -> "p2" [] ref = "r3" -> "p3"

Titles == {<<"a">>, <<"a", ":", " ", "b">>}

Dates == {20250130, 20250131, 20250201}

\* what get_document_data can return for a reference, None apart
DocumentData(ref) ==
    [publication_id : {PublicationIdOf(ref), None},
     page_count : 0..MaxPages,
     title : Titles,
     revision_id : {"rev", None},
     originalPublishDateInISOString : Dates \cup {NoDate}]

\* variant: a publication dated exactly at the cutoff passes
BeforeCutoff_strict(pub_date) == pub_date < CUTOFF_DATE

\* pub_date <= CUTOFF_DATE
BeforeCutoff(pub_date) == pub_date <= CUTOFF_DATE

\* variant: main uploads whatever scrape_publication returned
ShouldUpload_always(success) == TRUE

\* main: if success
ShouldUpload(success) == success

\* pdf_path as main builds it
MainPdfPath(handle, id, doc) == <<handle, id, doc.title>>

\* pdf_path as scrape_publication builds it
ScrapePdfPath(handle, doc) ==
    <<handle, doc.publication_id, sanitize_filename(doc.title)>>

(***************************************************************************)
(* Page files and create_pdf                                               *)
(***************************************************************************)
RECURSIVE Pow10(_)
Pow10(n) == IF n = 0 THEN 1 ELSE 10 * Pow10(n - 1)

Digit(d) ==
    CASE d = 0 -> "0" [] d = 1 -> "1" [] d = 2 -> "2" [] d = 3 -> "3"
      [] d = 4 -> "4" [] d = 5 -> "5" [] d = 6 -> "6" [] d = 7 -> "7"
      [] d = 8 -> "8" [] d = 9 -> "9"

\* str(n) for n >= 0
RECURSIVE Decimal(_)
Decimal(n) ==
    IF n < 10 THEN <<Digit(n)>> ELSE Append(Decimal(n \div 10), Digit(n % 10))

\* format(n, "03d"): zeros in front up to the width, never a digit cut off
RECURSIVE ZeroPad(_, _)
ZeroPad(s, width) == IF Len(s) >= width THEN s ELSE ZeroPad(<<"0">> \o s, width)

\* the file name in output_path; the directory is the same for all pages
PageFileName(page_num) ==
    <<"p", "a", "g", "e", "_">> \o ZeroPad(Decimal(page_num), PAGE_NUM_WIDTH)
        \o <<".", "j", "p", "g">>

\* code points of the characters of a page file name
ord(c) ==
    CASE c = "." -> 46
      [] c = "0" -> 48 [] c = "1" -> 49 [] c = "2" -> 50 [] c = "3" -> 51
      [] c = "4" -> 52 [] c = "5" -> 53 [] c = "6" -> 54 [] c = "7" -> 55
      [] c = "8" -> 56 [] c = "9" -> 57
      [] c = "_" -> 95 [] c = "a" -> 97 [] c = "e" -> 101 [] c = "g" -> 103
      [] c = "j" -> 106 [] c = "p" -> 112

\* a < b for Python strings
RECURSIVE StrLess(_, _)
StrLess(a, b) ==
    IF b = <<>> THEN FALSE
    ELSE IF a = <<>> THEN TRUE
    ELSE IF Head(a) = Head(b) THEN StrLess(Tail(a), Tail(b))
    ELSE ord(Head(a)) < ord(Head(b))

\* sorted(...) of the page files of the image folder, as page numbers
RECURSIVE SortedPages(_)
SortedPages(imgs) ==
    IF imgs = {} THEN <<>>
    ELSE LET first == CHOOSE p \in imgs :
                          \A q \in imgs \ {p} :
                              StrLess(PageFileName(p), PageFileName(q))
         IN  <<first>> \o SortedPages(imgs \ {first})

\* the artifact create_pdf writes at output_pdf: the images in sorted order
CreatedPdf(output_pdf, imgs) ==
    [path |-> output_pdf, pages |-> SortedPages(imgs)]

\* book_info, without publish_date
BookInfo(handle, id, doc, web_link) ==
    [publication_id |-> id,
     page_count |-> doc.page_count,
     title |-> doc.title,
     handle |-> handle,
     drive_link |-> web_link]

\* variant: upload_to_drive logs the exception and returns
UploadRaises_swallowed(ok) == FALSE

\* upload_to_drive: except Exception ... raise
UploadRaises(ok) == ~ok

\* download_page_image: True or False; no image exists at a location built
\* from a missing revision id
DownloadOutcomes(doc) == IF doc.revision_id = None THEN {FALSE} ELSE BOOLEAN

\* scrape_publication: if successful_downloads == 0
NoPagesDownloaded(n) == n = 0

\* variant: the retry loop goes through the failed pages twice
RetryList_twice(failed) == failed \o failed

\* the pages the retry loop goes through
RetryList(failed) == failed

(***************************************************************************)
(* State                                                                   *)
(***************************************************************************)
VARIABLES
    file,                 \* the ledger file
    run,                  \* number of runs started
    pc,                   \* position of the worker process
    h, k,                 \* main: index of the handle, of the reference
    doc_data,             \* main: doc_data of the current reference
    pub_id,               \* main: pub_id
    pub_date_str,         \* main: pub_date_str
    new_books,            \* main: new_books
    data,                 \* save_processed_publication: data
    log,                  \* outcome logged for the last reference
    email,                \* the list handed to send_email in this run
    error,                \* the exception main ended with
    pending,              \* scrape_publication: pages whose task is running
    completed,            \* futures done, not yet yielded by as_completed
    i,                    \* scrape_publication: i of the first-pass loop
    successful_downloads,
    failed_pages,
    retry_at,             \* position of the retry loop in failed_pages
    attempts,             \* calls of download_page_image per page number
    images,               \* page numbers download_page_image has saved
    pdf_file,             \* the artifact create_pdf wrote
    ledger_at_start,      \* ids in the ledger when the run started
    interrupted,          \* publication the last run was killed in
    num_publications,     \* get_publications: the number asked for
    pub_urls,             \* get_publications: pub_urls
    page,                 \* get_publications: page
    pub_cards             \* get_publications: cards of the last listing page

mainVars == <<h, k, doc_data, pub_id, pub_date_str, new_books, data, log, email,
              error>>
scrapeVars == <<pending, completed, i, successful_downloads, failed_pages,
                retry_at, attempts, images, pdf_file>>
listVars == <<num_publications, pub_urls, page, pub_cards>>
vars == <<file, run, pc, mainVars, scrapeVars, ledger_at_start, interrupted,
          listVars>>

\* get_publications is not running
ListingIdle ==
    /\ num_publications = NUM_PUBLICATIONS
    /\ pub_urls = <<>>
    /\ page = 1
    /\ pub_cards = <<>>

Stopped == {"not_started", "done", "raised", "killed"}
FetchPcs == {"first_pass", "retry"}
ScrapePcs == {"scrape_publication"} \cup FetchPcs
SavePcs == {"save", "save_open", "save_dump"}
Running == {"main_loop", "upload"} \cup ScrapePcs \cup SavePcs

handle == issuu_handles[h]
publications == publications_of(handle)
pub_url == publications[k]

NoAttempts == [p \in 1..MaxPages |-> 0]

Init ==
    /\ file \in {AbsentFile, OkFile(<<>>)}
    /\ run = 0
    /\ pc = "not_started"
    /\ h = 1 /\ k = 1
    /\ doc_data = NoDocument
    /\ pub_id = None
    /\ pub_date_str = NoDate
    /\ new_books = <<>>
    /\ data = <<>>
    /\ log = None
    /\ email = NoEmail
    /\ error = None
    /\ pending = {}
    /\ completed = <<>>
    /\ i = 0
    /\ successful_downloads = 0
    /\ failed_pages = <<>>
    /\ retry_at = 1
    /\ attempts = NoAttempts
    /\ images = {}
    /\ pdf_file = NoFile
    /\ ledger_at_start = {}
    /\ interrupted = None
    /\ ListingIdle

\* the state main() starts from
MainReset ==
    /\ h' = 1 /\ k' = 1
    /\ doc_data' = NoDocument
    /\ pub_id' = None
    /\ pub_date_str' = NoDate
    /\ new_books' = <<>>
    /\ data' = <<>>
    /\ log' = None
    /\ email' = NoEmail
    /\ error' = None

\* the locals scrape_publication starts from
ScrapeReset ==
    /\ pending' = {}
    /\ completed' = <<>>
    /\ i' = 0
    /\ successful_downloads' = 0
    /\ failed_pages' = <<>>
    /\ retry_at' = 1
    /\ attempts' = NoAttempts
    /\ images' = {}
    /\ pdf_file' = NoFile

(***************************************************************************)
(* Runs of the worker                                                      *)
(***************************************************************************)
\* the scheduler starts main()
StartRun ==
    /\ pc \in Stopped
    /\ run < MaxRuns
    /\ run' = run + 1
    /\ pc' = "main_loop"
    /\ MainReset
    /\ ScrapeReset
    /\ ledger_at_start' = LedgerIds(file)
    /\ UNCHANGED <<file, interrupted>>
    /\ UNCHANGED listVars

\* the process is killed; what it held in memory is gone
Kill ==
    /\ pc \in Running
    /\ pc' = "killed"
    /\ interrupted' = IF pc \in FetchPcs \cup {"upload"} THEN pub_id ELSE None
    /\ MainReset
    /\ ScrapeReset
    /\ UNCHANGED <<file, run, ledger_at_start>>
    /\ UNCHANGED listVars

(***************************************************************************)
(* main: the loops over handles and references (lines 139-171)             *)
(***************************************************************************)
AtReference ==
    /\ pc = "main_loop"
    /\ h <= Len(issuu_handles)
    /\ k <= Len(publications)

\* continue: the reference is finished, the for loop takes the next one;
\* doc_data is not read again before it is assigned
NextReference(outcome) ==
    /\ pc' = "main_loop"
    /\ k' = k + 1
    /\ log' = outcome
    /\ doc_data' = NoDocument
    /\ UNCHANGED <<h>>

\* for handle in config['issuu_handles']: get_publications of the next handle
NextHandle ==
    /\ pc = "main_loop"
    /\ h <= Len(issuu_handles)
    /\ k > Len(publications)
    /\ h' = h + 1
    /\ k' = 1
    /\ UNCHANGED <<file, run, pc, doc_data, pub_id, pub_date_str, new_books,
                   data, log, email, error, scrapeVars, ledger_at_start,
                   interrupted>>
    /\ UNCHANGED listVars

\* get_document_data returns None
ResolveFails ==
    /\ AtReference
    /\ NextReference("unresolved")
    /\ UNCHANGED <<file, run, pub_id, pub_date_str, new_books, data, email,
                   error, scrapeVars, ledger_at_start, interrupted>>
    /\ UNCHANGED listVars

\* is_publication_processed(pub_id) holds
SkipProcessed ==
    /\ AtReference
    /\ \E d \in DocumentData(pub_url) :
        /\ is_publication_processed(file, d.publication_id)
        /\ pub_id' = d.publication_id
    /\ UNCHANGED pub_date_str
    /\ file' = LoadedFile(file)
    /\ NextReference("already_processed")
    /\ UNCHANGED <<run, new_books, data, email, error, scrapeVars,
                   ledger_at_start, interrupted>>
    /\ UNCHANGED listVars

\* if not pub_date_str
SkipNoDate ==
    /\ AtReference
    /\ \E d \in DocumentData(pub_url) :
        /\ ~is_publication_processed(file, d.publication_id)
        /\ d.originalPublishDateInISOString = NoDate
        /\ pub_id' = d.publication_id
        /\ pub_date_str' = d.originalPublishDateInISOString
    /\ file' = LoadedFile(file)
    /\ NextReference("no_date")
    /\ UNCHANGED <<run, new_books, data, email, error, scrapeVars,
                   ledger_at_start, interrupted>>
    /\ UNCHANGED listVars

\* if pub_date <= CUTOFF_DATE
SkipBeforeCutoff ==
    /\ AtReference
    /\ \E d \in DocumentData(pub_url) :
        /\ ~is_publication_processed(file, d.publication_id)
        /\ d.originalPublishDateInISOString # NoDate
        /\ BeforeCutoff(d.originalPublishDateInISOString)
        /\ pub_id' = d.publication_id
        /\ pub_date_str' = d.originalPublishDateInISOString
    /\ file' = LoadedFile(file)
    /\ NextReference("before_cutoff")
    /\ UNCHANGED <<run, new_books, data, email, error, scrapeVars,
                   ledger_at_start, interrupted>>
    /\ UNCHANGED listVars

\* main reaches scraper.scrape_publication(handle, pub_url)
StartDownload ==
    /\ AtReference
    /\ \E d \in DocumentData(pub_url) :
        /\ ~is_publication_processed(file, d.publication_id)
        /\ d.originalPublishDateInISOString # NoDate
        /\ ~BeforeCutoff(d.originalPublishDateInISOString)
        /\ doc_data' = d
        /\ pub_id' = d.publication_id
        /\ pub_date_str' = d.originalPublishDateInISOString
    /\ file' = LoadedFile(file)
    /\ pc' = "scrape_publication"
    /\ log' = None
    /\ ScrapeReset
    /\ UNCHANGED <<run, h, k, new_books, data, email, error, ledger_at_start,
                   interrupted>>
    /\ UNCHANGED listVars

(***************************************************************************)
(* scrape_publication                                                      *)
(***************************************************************************)
\* scrape_publication returns False to main (lines 171-173); its locals are
\* gone
ScrapeReturnsFalse ==
    /\ log' = "scrape_failed"
    /\ ScrapeReset
    /\ IF ShouldUpload(FALSE)
       THEN pc' = "upload" /\ k' = k /\ UNCHANGED doc_data
       ELSE pc' = "main_loop" /\ k' = k + 1 /\ doc_data' = NoDocument
    /\ UNCHANGED <<h>>

\* scrape_publication returns True, having written the artifact
ScrapeReturnsTrue(artifact) ==
    /\ pdf_file' = artifact
    /\ IF ShouldUpload(TRUE)
       THEN pc' = "upload" /\ k' = k
       ELSE pc' = "main_loop" /\ k' = k + 1
    /\ UNCHANGED <<h, doc_data, log, pending, completed, i,
                   successful_downloads, failed_pages, retry_at, attempts,
                   images>>

\* lines 205-208: its own get_document_data fails, or the id is missing
ScrapeResolveFails ==
    /\ pc = "scrape_publication"
    /\ ScrapeReturnsFalse
    /\ UNCHANGED <<file, run, pub_id, pub_date_str, new_books, data, email,
                   error, ledger_at_start, interrupted>>
    /\ UNCHANGED listVars

\* lines 210-240: one download task per page is submitted to the executor
SubmitPages ==
    /\ pc = "scrape_publication"
    /\ doc_data.publication_id # None
    /\ pending' = 1..doc_data.page_count
    /\ pc' = "first_pass"
    /\ UNCHANGED <<file, run, mainVars, completed, i, successful_downloads,
                   failed_pages, retry_at, attempts, images, pdf_file,
                   ledger_at_start, interrupted>>
    /\ UNCHANGED listVars

\* a worker thread finishes download_page_image for page p
TaskCompletes(p, ok) ==
    /\ pc = "first_pass"
    /\ p \in pending
    /\ ok \in DownloadOutcomes(doc_data)
    /\ pending' = pending \ {p}
    /\ completed' = Append(completed, <<p, ok>>)
    /\ attempts' = [attempts EXCEPT ![p] = @ + 1]
    /\ images' = IF ok THEN images \cup {p} ELSE images
    /\ UNCHANGED <<file, run, pc, mainVars, i, successful_downloads,
                   failed_pages, retry_at, pdf_file, ledger_at_start,
                   interrupted>>
    /\ UNCHANGED listVars

\* lines 242-250: the body of the loop over as_completed(futures)
HandleCompletion ==
    /\ pc = "first_pass"
    /\ completed # <<>>
    /\ LET success == Head(completed)[2]
       IN  /\ i' = i + 1
           /\ successful_downloads' =
                IF success THEN successful_downloads + 1
                ELSE successful_downloads
           /\ failed_pages' =
                IF success THEN failed_pages ELSE Append(failed_pages, i')
    /\ completed' = Tail(completed)
    /\ UNCHANGED <<file, run, pc, mainVars, pending, retry_at, attempts,
                   images, pdf_file, ledger_at_start, interrupted>>
    /\ UNCHANGED listVars

\* variant: the executor block is left while tasks are still running
FirstPassOver_early == pc = "first_pass" /\ completed = <<>>

\* the loop over as_completed is exhausted and the executor block is left
FirstPassOver == pc = "first_pass" /\ pending = {} /\ completed = <<>>

\* lines 252-254: no page was downloaded
NoPages ==
    /\ FirstPassOver
    /\ NoPagesDownloaded(successful_downloads)
    /\ ScrapeReturnsFalse
    /\ UNCHANGED <<file, run, pub_id, pub_date_str, new_books, data, email,
                   error, ledger_at_start, interrupted>>
    /\ UNCHANGED listVars

\* line 257: on to the retry loop
StartRetry ==
    /\ FirstPassOver
    /\ ~NoPagesDownloaded(successful_downloads)
    /\ pc' = "retry"
    /\ UNCHANGED <<file, run, mainVars, scrapeVars, ledger_at_start,
                   interrupted>>
    /\ UNCHANGED listVars

\* lines 259-268: the body of the retry loop
RetryPage(ok) ==
    /\ pc = "retry"
    /\ retry_at <= Len(RetryList(failed_pages))
    /\ ok \in DownloadOutcomes(doc_data)
    /\ LET page_num == RetryList(failed_pages)[retry_at]
       IN  /\ attempts' = [attempts EXCEPT ![page_num] = @ + 1]
           /\ images' = IF ok THEN images \cup {page_num} ELSE images
    /\ successful_downloads' =
         IF ok THEN successful_downloads + 1 ELSE successful_downloads
    /\ retry_at' = retry_at + 1
    /\ UNCHANGED <<file, run, pc, mainVars, pending, completed, i,
                   failed_pages, pdf_file, ledger_at_start, interrupted>>
    /\ UNCHANGED listVars

FetchOver == pc = "retry" /\ retry_at > Len(RetryList(failed_pages))

\* create_pdf(images_dir, pdf_path): False without images or on an exception
CreatePdfOutcomes == IF images = {} THEN {FALSE} ELSE BOOLEAN

\* lines 270-281
CreatePdf(pdf_created) ==
    /\ FetchOver
    /\ IF successful_downloads > 0
       THEN /\ pdf_created \in CreatePdfOutcomes
            /\ IF pdf_created
               THEN ScrapeReturnsTrue(
                        CreatedPdf(ScrapePdfPath(handle, doc_data), images))
               ELSE ScrapeReturnsFalse
       ELSE /\ pdf_created = FALSE
            /\ ScrapeReturnsFalse
    /\ UNCHANGED <<file, run, pub_id, pub_date_str, new_books, data, email,
                   error, ledger_at_start, interrupted>>
    /\ UNCHANGED listVars

(***************************************************************************)
(* main: upload, ledger, notification (lines 173-209)                      *)
(***************************************************************************)
\* MediaFileUpload needs the file; the request itself may fail
UploadOutcomes ==
    IF MainPdfPath(handle, pub_id, doc_data) = pdf_file.path THEN BOOLEAN
    ELSE {FALSE}

\* lines 174-192
Upload(ok) ==
    /\ pc = "upload"
    /\ ok \in UploadOutcomes
    /\ IF UploadRaises(ok)
       THEN /\ pc' = "raised"
            /\ error' = "UploadError"
            /\ interrupted' = None
            /\ UNCHANGED <<new_books>>
       ELSE /\ pc' = "save"
            /\ new_books' = Append(new_books,
                 BookInfo(handle, pub_id, doc_data,
                          IF ok THEN "web_link" ELSE None))
            /\ UNCHANGED <<error, interrupted>>
    /\ UNCHANGED <<file, run, h, k, doc_data, pub_id, pub_date_str, data, log,
                   email, scrapeVars, ledger_at_start>>
    /\ UNCHANGED listVars

\* save_processed_publication, lines 50-55
SaveLoad ==
    /\ pc = "save"
    /\ data' = Append(LoadedData(file),
                      [publication_id |-> pub_id,
                       metadata |-> new_books[Len(new_books)]])
    /\ file' = LoadedFile(file)
    /\ pc' = "save_open"
    /\ UNCHANGED <<run, h, k, doc_data, pub_id, pub_date_str, new_books, log,
                   email, error, scrapeVars, ledger_at_start, interrupted>>
    /\ UNCHANGED listVars

\* line 56: open(PROCESSED_PUBS_FILE, 'w') empties the file
SaveOpen ==
    /\ pc = "save_open"
    /\ file' = CorruptFile
    /\ pc' = "save_dump"
    /\ UNCHANGED <<run, mainVars, scrapeVars, ledger_at_start, interrupted>>
    /\ UNCHANGED listVars

\* line 57: json.dump(data, f), and back to the loop; the locals of the
\* calls that returned are gone
SaveDump ==
    /\ pc = "save_dump"
    /\ file' = OkFile(data)
    /\ data' = <<>>
    /\ ScrapeReset
    /\ NextReference("processed")
    /\ UNCHANGED <<run, pub_id, pub_date_str, new_books, email, error,
                   ledger_at_start, interrupted>>
    /\ UNCHANGED listVars

\* variant: the notification is not held back until the loops are over
AllHandlesDone_any == TRUE

\* the loop over config['issuu_handles'] is exhausted
AllHandlesDone == h > Len(issuu_handles)

\* lines 199-205
Notify(sent) ==
    /\ pc = "main_loop"
    /\ AllHandlesDone
    /\ IF new_books # <<>> /\ ~sent
       THEN pc' = "raised" /\ error' = "NotificationError" /\ UNCHANGED email
       ELSE /\ pc' = "done"
            /\ email' = new_books
            /\ UNCHANGED error
    /\ interrupted' = None
    /\ UNCHANGED <<file, run, h, k, doc_data, pub_id, pub_date_str, new_books,
                   data, log, scrapeVars, ledger_at_start>>
    /\ UNCHANGED listVars

Next ==
    \/ StartRun
    \/ Kill
    \/ NextHandle
    \/ ResolveFails
    \/ SkipProcessed
    \/ SkipNoDate
    \/ SkipBeforeCutoff
    \/ StartDownload
    \/ ScrapeResolveFails
    \/ SubmitPages
    \/ \E p \in 1..MaxPages, ok \in BOOLEAN : TaskCompletes(p, ok)
    \/ HandleCompletion
    \/ NoPages
    \/ StartRetry
    \/ \E ok \in BOOLEAN : RetryPage(ok)
    \/ \E pdf_created \in BOOLEAN : CreatePdf(pdf_created)
    \/ \E ok \in BOOLEAN : Upload(ok)
    \/ SaveLoad
    \/ SaveOpen
    \/ SaveDump
    \/ \E sent \in BOOLEAN : Notify(sent)

Spec == Init /\ [][Next]_vars

(***************************************************************************)
(* The ledger operations alone: is_publication_processed and               *)
(* save_processed_publication called on a ledger file in any state         *)
(***************************************************************************)
LedgerRecord(id) ==
    [publication_id |-> id,
     metadata |-> BookInfo("h1", id, NoDocument, "web_link")]

RECURSIVE SeqsUpTo(_, _)
SeqsUpTo(S, n) ==
    IF n = 0 THEN {<<>>}
    ELSE LET shorter == SeqsUpTo(S, n - 1)
         IN  shorter \cup {Append(s, x) : s \in shorter, x \in S}

PublicationIds == {PublicationIdOf(ref) : ref \in References}

\* no file, a file json.load rejects, a file with records
LedgerFiles ==
    {AbsentFile, CorruptFile} \cup
    {OkFile(recs) :
        recs \in SeqsUpTo({LedgerRecord(id) : id \in PublicationIds},
                          MaxRecs) \ {<<>>}}

LedgerInit ==
    /\ file \in LedgerFiles
    /\ run = 1
    /\ pc = "main_loop"
    /\ h = 1 /\ k = 1
    /\ doc_data = NoDocument
    /\ pub_id = None
    /\ pub_date_str = NoDate
    /\ new_books = <<>>
    /\ data = <<>>
    /\ log = None
    /\ email = NoEmail
    /\ error = None
    /\ pending = {}
    /\ completed = <<>>
    /\ i = 0
    /\ successful_downloads = 0
    /\ failed_pages = <<>>
    /\ retry_at = 1
    /\ attempts = NoAttempts
    /\ images = {}
    /\ pdf_file = NoFile
    /\ ledger_at_start = LedgerIds(file)
    /\ interrupted = None
    /\ ListingIdle

\* is_publication_processed(pub_id), lines 59-61
LedgerCheck(id) ==
    /\ pc = "main_loop"
    /\ pub_id' = id
    /\ log' = IF is_publication_processed(file, id) THEN "already_processed"
              ELSE "not_processed"
    /\ file' = LoadedFile(file)
    /\ UNCHANGED <<run, pc, h, k, doc_data, pub_date_str, new_books, data,
                   email, error, scrapeVars, ledger_at_start, interrupted>>
    /\ UNCHANGED listVars

\* save_processed_publication(pub_id, book_info) is called, line 49
LedgerCallSave(id) ==
    /\ pc = "main_loop"
    /\ Len(LoadedData(file)) < MaxRecs
    /\ pub_id' = id
    /\ new_books' = <<LedgerRecord(id).metadata>>
    /\ pc' = "save"
    /\ UNCHANGED <<file, run, h, k, doc_data, pub_date_str, data, log, email,
                   error, scrapeVars, ledger_at_start, interrupted>>
    /\ UNCHANGED listVars

LedgerNext ==
    \/ \E id \in PublicationIds : LedgerCheck(id)
    \/ \E id \in PublicationIds : LedgerCallSave(id)
    \/ SaveLoad
    \/ SaveOpen
    \/ SaveDump

LedgerSpec == LedgerInit /\ [][LedgerNext]_vars

(***************************************************************************)
(* get_publications alone, against any upstream listing                    *)
(***************************************************************************)
\* what card.find('a', href=...) gives for a card: no anchor into
\* /{handle}/docs/, the docs index itself, an absolute link, or the relative
\* link of a publication
CardLinks == {"no_link", "/h1/docs/", "http://issuu.com/h1/docs/d1",
              "/h1/docs/d1", "/h1/docs/d2", "/h1/docs/d3"}

\* line 315
IsPublicationLink(link) ==
    link \notin {"no_link", "/h1/docs/", "http://issuu.com/h1/docs/d1"}

\* line 316
full_url(link) == <<"https://issuu.com", link>>

\* lines 313-320: the loop over the cards of one listing page
RECURSIVE AddCards(_, _, _)
AddCards(urls, cards, n) ==
    IF cards = <<>> THEN urls
    ELSE IF IsPublicationLink(Head(cards))
            /\ full_url(Head(cards)) \notin Range(urls)
    THEN LET added == Append(urls, full_url(Head(cards)))
         IN  IF Len(added) >= n THEN added
             ELSE AddCards(added, Tail(cards), n)
    ELSE AddCards(urls, Tail(cards), n)

\* the listing pages the upstream can answer with, the empty one apart
ListingPages == SeqsUpTo(CardLinks, MaxCards) \ {<<>>}

ListingInit ==
    /\ file = OkFile(<<>>)
    /\ run = 1
    /\ pc = "get_publications"
    /\ h = 1 /\ k = 1
    /\ doc_data = NoDocument
    /\ pub_id = None
    /\ pub_date_str = NoDate
    /\ new_books = <<>>
    /\ data = <<>>
    /\ log = None
    /\ email = NoEmail
    /\ error = None
    /\ pending = {}
    /\ completed = <<>>
    /\ i = 0
    /\ successful_downloads = 0
    /\ failed_pages = <<>>
    /\ retry_at = 1
    /\ attempts = NoAttempts
    /\ images = {}
    /\ pdf_file = NoFile
    /\ ledger_at_start = {}
    /\ interrupted = None
    /\ num_publications \in 1..MaxRequested
    /\ pub_urls = <<>>
    /\ page = 1
    /\ pub_cards = <<>>

notListVars ==
    <<file, run, mainVars, scrapeVars, ledger_at_start, interrupted>>

\* line 293
ListingLoops == pc = "get_publications" /\ Len(pub_urls) < num_publications

\* line 331
ListingReturns ==
    /\ pc' = "returned"
    /\ pub_urls' = SliceTo(pub_urls, num_publications)
    /\ UNCHANGED <<notListVars, num_publications, page>>

\* lines 295-324: a listing page with cards
ListingPage(cards) ==
    /\ ListingLoops
    /\ pub_cards' = cards
    /\ pub_urls' = AddCards(pub_urls, cards, num_publications)
    /\ page' = IF page < MaxListedPage THEN page + 1 ELSE page
    /\ UNCHANGED <<pc, notListVars, num_publications>>

\* lines 307-309: a listing page without cards
ListingEmpty ==
    /\ ListingLoops
    /\ pub_cards' = <<>>
    /\ ListingReturns

\* lines 326-328: the request fails
ListingRaises ==
    /\ ListingLoops
    /\ UNCHANGED pub_cards
    /\ ListingReturns

\* line 293: enough publications
ListingEnough ==
    /\ pc = "get_publications"
    /\ Len(pub_urls) >= num_publications
    /\ UNCHANGED pub_cards
    /\ ListingReturns

ListingNext ==
    \/ \E cards \in ListingPages : ListingPage(cards)
    \/ ListingEmpty
    \/ ListingRaises
    \/ ListingEnough

ListingSpec == ListingInit /\ [][ListingNext]_vars

\* the process that called get_publications keeps running
ListingFairSpec == ListingSpec /\ WF_vars(ListingNext)

(***************************************************************************)
(* Assembly alone: page images saved in any order, then create_pdf         *)
(***************************************************************************)
\* page numbers around the width of the file name
PageNums ==
    {1, 2, 10,
     Pow10(PAGE_NUM_WIDTH - 1) - 1, Pow10(PAGE_NUM_WIDTH - 1),
     Pow10(PAGE_NUM_WIDTH) - 1, Pow10(PAGE_NUM_WIDTH)}

AssemblyInit ==
    /\ file = OkFile(<<>>)
    /\ run = 1
    /\ pc = "retry"
    /\ h = 1 /\ k = 1
    /\ doc_data = [publication_id |-> "p1",
                   page_count |-> Pow10(PAGE_NUM_WIDTH),
                   title |-> <<"a">>,
                   revision_id |-> "rev",
                   originalPublishDateInISOString |-> 20250201]
    /\ pub_id = "p1"
    /\ pub_date_str = 20250201
    /\ new_books = <<>>
    /\ data = <<>>
    /\ log = None
    /\ email = NoEmail
    /\ error = None
    /\ pending = {}
    /\ completed = <<>>
    /\ i = 0
    /\ successful_downloads = 0
    /\ failed_pages = <<>>
    /\ retry_at = 1
    /\ attempts = NoAttempts
    /\ images = {}
    /\ pdf_file = NoFile
    /\ ledger_at_start = {}
    /\ interrupted = None
    /\ ListingIdle

\* a call of download_page_image has saved page_{page_num:03d}.jpg
PageSaved(page_num) ==
    /\ pc = "retry"
    /\ page_num \in 1..doc_data.page_count
    /\ page_num \notin images
    /\ images' = images \cup {page_num}
    /\ successful_downloads' = successful_downloads + 1
    /\ UNCHANGED <<file, run, pc, mainVars, pending, completed, i,
                   failed_pages, retry_at, attempts, pdf_file,
                   ledger_at_start, interrupted>>
    /\ UNCHANGED listVars

AssemblyNext ==
    \/ \E page_num \in PageNums : PageSaved(page_num)
    \/ \E pdf_created \in BOOLEAN : CreatePdf(pdf_created)

AssemblySpec == AssemblyInit /\ [][AssemblyNext]_vars

(***************************************************************************)
(* scrape_publication alone, for titles of all kinds                       *)
(***************************************************************************)
Repeat(c, n) == [j \in 1..n |-> c]

\* letters, separators, characters of char_map with an empty, a one-character
\* and a longer replacement, an accented letter, a control character, a dot
TitleChars == {"a", " ", "-", ".", "?", ":", "&", "e_acute", "TAB"}

ShortTitles == SeqsUpTo(TitleChars, 2)

\* titles around and beyond the length limit of sanitize_filename
LongTitles ==
    {Repeat("a", MAX_FILENAME_LEN + 1),
     Repeat("a", MAX_FILENAME_LEN - 1) \o <<" ", "b">>,
     Repeat("a", MAX_FILENAME_LEN) \o <<".", "p", "d", "f">>,
     <<"a", ".">> \o Repeat("b", MAX_FILENAME_LEN)}

ScrapeInit ==
    /\ file = OkFile(<<>>)
    /\ run = 1
    /\ pc = "scrape_publication"
    /\ h = 1 /\ k = 1
    /\ doc_data \in [publication_id : {"p1"},
                      page_count : 1..MaxPages,
                      title : ShortTitles \cup LongTitles,
                      revision_id : {"rev"},
                      originalPublishDateInISOString : {20250201}]
    /\ pub_id = "p1"
    /\ pub_date_str = 20250201
    /\ new_books = <<>>
    /\ data = <<>>
    /\ log = None
    /\ email = NoEmail
    /\ error = None
    /\ pending = {}
    /\ completed = <<>>
    /\ i = 0
    /\ successful_downloads = 0
    /\ failed_pages = <<>>
    /\ retry_at = 1
    /\ attempts = NoAttempts
    /\ images = {}
    /\ pdf_file = NoFile
    /\ ledger_at_start = {}
    /\ interrupted = None
    /\ ListingIdle

\* the document resolves again as it did for main
ScrapeNext ==
    \/ SubmitPages
    \/ \E p \in 1..MaxPages, ok \in BOOLEAN : TaskCompletes(p, ok)
    \/ HandleCompletion
    \/ NoPages
    \/ StartRetry
    \/ \E ok \in BOOLEAN : RetryPage(ok)
    \/ \E pdf_created \in BOOLEAN : CreatePdf(pdf_created)

ScrapeSpec == ScrapeInit /\ [][ScrapeNext]_vars

(***************************************************************************)
(* Properties                                                              *)
(***************************************************************************)
\* the reference the worker is in the pipeline of: pages are being fetched,
\* or the artifact is uploaded, or the ledger is written
PipelinePcs == FetchPcs \cup {"upload"} \cup SavePcs

NewBookIds == {new_books[n].publication_id : n \in DOMAIN new_books}

\* C1: a ledger record is written only after resolve, fetch of at least one
\* page, assembly and upload have succeeded for that reference in the current
\* run; a reference that fails in one of these phases leaves the ledger
\* without a record for its publication, and a publication without a record
\* is not skipped as already processed.
C1_RecordedInRun ==
    pc \in Running \cup {"done", "raised"} =>
        \A p \in LedgerIds(file) \ ledger_at_start :
            \E n \in DOMAIN new_books :
                /\ new_books[n].publication_id = p
                /\ new_books[n].drive_link # None
C1_NoRecordBeforeSave ==
    /\ pc \in ScrapePcs \cup {"upload"} => pub_id \notin LedgerIds(file)
    /\ pc = "raised" /\ error = "UploadError" => pub_id \notin LedgerIds(file)
C1_Steps ==
    /\ new_books' # new_books /\ pc = "upload" =>
          /\ doc_data # NoDocument
          /\ successful_downloads > 0
          /\ images # {}
          /\ pdf_file # NoFile
    /\ pc \in ScrapePcs /\ log' = "scrape_failed" => file' = file
    /\ pc = "main_loop" /\ log' = "unresolved" => file' = file
    /\ pc = "main_loop" /\ pc' = "main_loop" /\ k' = k + 1
          /\ log' = "already_processed" => pub_id' \in LedgerIds(file)
C1_LedgerOnlyAfterSuccess ==
    [](C1_RecordedInRun /\ C1_NoRecordBeforeSave) /\ [][C1_Steps]_vars

C1_Witness ==
    /\ pc = "main_loop"
    /\ log = "processed"
    /\ pub_id \in LedgerIds(file) \ ledger_at_start

\* C2: a publication that is in the ledger when a run starts (it reached the
\* ledger in an earlier run and the file was left alone) is not fetched,
\* assembled, uploaded or recorded by that run.
C2_Idempotent ==
    pc \in ScrapePcs \cup {"upload"} \cup SavePcs =>
        pub_id \notin ledger_at_start

C2_Witness ==
    /\ run = 2
    /\ pc = "main_loop"
    /\ log = "already_processed"
    /\ pub_id \in ledger_at_start

\* C3: when the process is killed after the fetch phase of a publication has
\* started and before save_processed_publication is called for it, the
\* persisted ledger has no entry for that publication, and the next run does
\* not skip it as already processed: when it comes to the reference it can
\* enter scrape_publication for it.
C3_CrashSafe ==
    interrupted # None =>
        /\ pc = "killed" => interrupted \notin LedgerIds(file)
        /\ AtReference /\ PublicationIdOf(pub_url) = interrupted
              => /\ ~is_publication_processed(file, interrupted)
                 /\ ENABLED StartDownload
        /\ log = "already_processed" => pub_id # interrupted

C3_Witness ==
    /\ interrupted # None
    /\ pc \in FetchPcs
    /\ pub_id = interrupted

\* C4: a failure of the upload aborts only that reference: the run goes on
\* with the next reference and does not end with the upload's exception.
C4_UploadFailureKeepsRunning == pc = "raised" => error # "UploadError"

\* C5: when the fetch phase ends, the success counter is the number of
\* distinct pages whose fetch succeeded, and every page whose fetch did not
\* succeed is among the pages accounted as failed.
C5_FetchAccounting ==
    FetchOver =>
        /\ successful_downloads = Cardinality(images)
        /\ (1..doc_data.page_count) \ images \subseteq Range(failed_pages)

\* C6: within one call of scrape_publication a page is attempted at most
\* twice.
C6_RetryBound == \A p \in 1..MaxPages : attempts[p] <= 2

C6_Witness ==
    /\ FetchOver
    /\ \E p \in 1..MaxPages : attempts[p] = 2 /\ p \notin images

\* C7: when every page fetch of a publication fails, no artifact is
\* assembled, upload is not invoked, nothing is written to the ledger,
\* scrape_publication returns failure and main goes on to the next reference.
C7_NothingWithoutPages ==
    images = {} =>
        /\ pdf_file = NoFile
        /\ pc \notin {"upload"} \cup SavePcs
C7_Steps ==
    FirstPassOver /\ images = {} /\ pc' # "killed" /\ pc' # pc =>
        /\ pc' = "main_loop"
        /\ log' = "scrape_failed"
        /\ k' = k + 1 /\ h' = h
        /\ file' = file
        /\ new_books' = new_books
C7_AllPagesFailed == []C7_NothingWithoutPages /\ [][C7_Steps]_vars

C7_Witness ==
    /\ FirstPassOver
    /\ images = {}
    /\ doc_data.page_count > 0
    /\ doc_data.revision_id # None
    /\ \A p \in 1..doc_data.page_count : attempts[p] = 1

\* C8: a publication whose publish date is missing or not after the cutoff
\* (the cutoff itself included) is not fetched, uploaded or recorded in that
\* run, and the reference ends as a skip, not as an error.
C8_InPipelineAfterCutoff ==
    pc \in ScrapePcs \cup {"upload"} \cup SavePcs =>
        pub_date_str # NoDate /\ pub_date_str > CUTOFF_DATE
C8_SkipIsNoError ==
    log \in {"no_date", "before_cutoff"} =>
        /\ pub_date_str = NoDate \/ pub_date_str <= CUTOFF_DATE
        /\ pub_id \notin LedgerIds(file) \cup NewBookIds
C8_Steps ==
    log' \in {"no_date", "before_cutoff"} /\ k' # k =>
        /\ pc' = "main_loop"
        /\ error' = None
        /\ new_books' = new_books
        /\ LedgerIds(file') = LedgerIds(file)
C8_CutoffFilter ==
    [](C8_InPipelineAfterCutoff /\ C8_SkipIsNoError) /\ [][C8_Steps]_vars

C8_Witness ==
    /\ log = "before_cutoff"
    /\ pub_date_str = CUTOFF_DATE
    /\ pc = "main_loop"

\* C9: a publication that lacks its id or its revision id does not enter the
\* pipeline: no page fetch task is submitted for it, no artifact is assembled
\* and no ledger record is written.
C9_InvalidNeverFetched ==
    /\ pc \in ScrapePcs \cup PipelinePcs
    /\ doc_data.publication_id = None \/ doc_data.revision_id = None
    => /\ pending = {}
       /\ attempts = NoAttempts
       /\ pdf_file = NoFile
       /\ pc \notin SavePcs

\* C10: the persisted ledger holds at most one record per publication id and
\* is append-only: a record that was in the ledger when a run started is
\* still there when the run has ended.
NoDuplicateRecords ==
    \A m, n \in DOMAIN file.recs :
        file.recs[m].publication_id = file.recs[n].publication_id => m = n
C10_AppendOnly ==
    /\ NoDuplicateRecords
    /\ pc \in Stopped => ledger_at_start \subseteq LedgerIds(file)

\* C11: loading an absent or unparseable ledger file does not fail: the load
\* yields the empty ledger and leaves a fresh empty ledger file, and the
\* caller goes on; in is_publication_processed no publication counts as
\* processed, in save_processed_publication the new record becomes the only
\* record of the file.
C11_Steps ==
    file.state # "ok" =>
        /\ pc = "main_loop" /\ pc' = "main_loop" =>
              /\ file' = OkFile(<<>>)
              /\ log' = "not_processed"
        /\ pc = "save" =>
              /\ file' = OkFile(<<>>)
              /\ data' = <<LedgerRecord(pub_id)>>
              /\ pc' = "save_open"
C11_SaveCompletes ==
    /\ pc \notin Stopped
    /\ error = None
    /\ pc = "main_loop" /\ log = "processed" =>
          file.state = "ok" /\ pub_id \in LedgerIds(file)
C11_LoadRecreates == []C11_SaveCompletes /\ [][C11_Steps]_vars

\* save_processed_publication, called first, has loaded a file that was
\* absent or unparseable
C11_Witness ==
    /\ pc = "save_open"
    /\ log = None
    /\ file = OkFile(<<>>)
    /\ data = <<LedgerRecord(pub_id)>>

\* C12: the artifact presents the page images in ascending numeric order of
\* their page numbers, whatever the order they were saved in and whatever
\* the number of digits of the page numbers.
C12_NumericOrder ==
    \A m, n \in DOMAIN pdf_file.pages :
        m < n => pdf_file.pages[m] < pdf_file.pages[n]

\* C13: the page count main records for a publication (in book_info, which
\* goes to the ledger record and to the notification) is the number of pages
\* in the artifact, so that a partial artifact differs from a complete one.
C13_PageCountRecorded ==
    pc \in SavePcs =>
        new_books[Len(new_books)].page_count = Len(pdf_file.pages)

\* C14: the status a run ends with tells whether a reference was aborted: a
\* run that aborted a reference (resolution failed, or scrape_publication
\* returned failure) does not end as a run without aborted references does,
\* by the normal return of main.  Stated for the last reference of the run,
\* whose outcome is still in the log when main returns.
C14_ExitStatus ==
    pc = "done" => log \notin {"unresolved", "scrape_failed"}

\* C15: send_email is called at most once per run, only after all handles
\* and references have been processed and only when a publication was
\* completed in the run; the list it gets holds exactly the publications
\* uploaded in that run.
C15_EmailIds == {email[n].publication_id : n \in DOMAIN email}
C15_ListIsUploads ==
    email # NoEmail =>
        /\ pc = "done"
        /\ email = new_books
        /\ \A n \in DOMAIN email : email[n].drive_link # None
        /\ C15_EmailIds = LedgerIds(file) \ ledger_at_start
        /\ Cardinality(C15_EmailIds) = Len(email)
C15_Steps ==
    /\ email' # email /\ email' # NoEmail =>
          /\ email = NoEmail
          /\ pc = "main_loop" /\ h > Len(issuu_handles)
          /\ new_books # <<>>
    /\ email # NoEmail /\ email' # email => run' = run + 1
C15_NotifyOnce == []C15_ListIsUploads /\ [][C15_Steps]_vars

C15_Witness ==
    /\ pc = "done"
    /\ Len(email) = 2
    /\ ledger_at_start # {}

\* C16: for every title, the name sanitize_filename returns is not empty,
\* holds no character that is a key of char_map, and is left as it is by
\* sanitize_filename.
C16_NonEmpty == pdf_file # NoFile => pdf_file.path[3] # <<>>
C16_NoKeys ==
    pdf_file # NoFile =>
        \A n \in DOMAIN pdf_file.path[3] :
            pdf_file.path[3][n] \notin DOMAIN char_map
C16_Idempotent ==
    pdf_file # NoFile =>
        sanitize_filename(pdf_file.path[3]) = pdf_file.path[3]
C16_SanitizeIdempotent == C16_NonEmpty /\ C16_NoKeys /\ C16_Idempotent

\* C17: whatever the order in which the first-pass tasks complete, the page
\* numbers the retry loop goes through are exactly the page numbers whose
\* first-pass download failed, so no page downloaded in the first pass is
\* downloaded again.
C17_RetriesFailedPages ==
    pc = "retry" /\ retry_at = 1 =>
        Range(RetryList(failed_pages)) = (1..doc_data.page_count) \ images

\* C18: a page counts as failed only after its retry: when
\* scrape_publication gives the publication up because no page was
\* downloaded, every page has failed its first-pass attempt and its retry,
\* also when all first-pass attempts failed.
C18_RetryBeforeGivingUp ==
    ENABLED NoPages /\ doc_data.revision_id # None =>
        \A p \in 1..doc_data.page_count : attempts[p] = 2

\* C19: the retry loop starts only after every first-pass task has completed
\* and its result has been handled, and it downloads one page at a time: while
\* it runs no first-pass task is pending, failed_pages does not change, and
\* each of its steps is one download.
C19_NoTaskDuringRetry ==
    pc = "retry" =>
        /\ pending = {}
        /\ completed = <<>>
        /\ i = doc_data.page_count
C19_Steps ==
    /\ pc = "first_pass" /\ pc' = "retry" =>
          /\ pending = {} /\ completed = <<>>
          /\ failed_pages' = failed_pages
    /\ pc = "retry" /\ pc' = "retry" =>
          /\ failed_pages' = failed_pages
          /\ pending' = {} /\ completed' = <<>>
          /\ retry_at' = retry_at + 1
          /\ \E p \in 1..MaxPages :
                attempts' = [attempts EXCEPT ![p] = @ + 1]
C19_RetrySequential == []C19_NoTaskDuringRetry /\ [][C19_Steps]_vars

C19_Witness ==
    /\ pc = "retry"
    /\ retry_at > 1
    /\ doc_data.page_count > 1

\* C20: the path main hands to upload_to_drive is the path at which
\* scrape_publication wrote the artifact, for every title, titles that
\* sanitize_filename changes included.
C20_UploadsWrittenPath ==
    pc = "upload" => MainPdfPath(handle, pub_id, doc_data) = pdf_file.path

\* C21: a kill inside save_processed_publication, between the truncation of
\* the ledger file and the end of the write, loses no record of an earlier
\* call: every publication that was in the ledger when the run started is
\* reported as processed by a load of the file the kill left, and by the
\* loads after it.
C21_InterruptedSaveKeepsRecords ==
    pc = "killed" /\ file.state = "corrupt" =>
        \A id \in ledger_at_start :
            /\ is_publication_processed(file, id)
            /\ is_publication_processed(LoadedFile(file), id)

\* C22: get_publications terminates whatever the upstream listing answers,
\* also when it keeps answering with listing pages that have cards but add no
\* new reference, and the list it returns is free of duplicates and holds at
\* most num_publications references.
C22_ResultOk ==
    pc = "returned" =>
        /\ Len(pub_urls) <= num_publications
        /\ \A m, n \in DOMAIN pub_urls : pub_urls[m] = pub_urls[n] => m = n
C22_Terminates == <>(pc = "returned") /\ []C22_ResultOk

====
